---- MODULE Spec2Model ----
(***************************************************************************)
(* The session store, prompt assembly and request handlers of src/app.py   *)
(* (CareerHRBot): /chat, /reset and /upload_resume served by the threads   *)
(* of the Flask server over the process-wide dict `conversations`.         *)
(*                                                                         *)
(* Text is a sequence of characters (one-character strings); the long      *)
(* literals of the program are single tokens.  A list object of the        *)
(* program is an entry of `heap`; `conversations` maps a session id to the *)
(* list object it holds, so that a handler that has looked its list up and *)
(* is then overtaken by a reset keeps the list it looked up, as in Python. *)
(* A step of a handler is one access to the shared dict or to a shared     *)
(* list, together with the local computation that follows it.              *)
(***************************************************************************)
EXTENDS Integers, Sequences, FiniteSets, TLC

\* ------------------------------------------------------------------ bounds
MaxRequests == 2        \* requests that get as far as the store or the gateway
SeqExtra == 2           \* and how many more of them a server that is not threaded gets
MaxClock == 1           \* the readings of the wall clock are 0..MaxClock
TicksPerMinute == 1     \* clock ticks inside one rendered minute (%M)

Workers == {1, 2}                 \* request threads of the server
ProvidedIds == {"s1"}             \* session ids a client makes up
UuidPool == {"u1"}                \* the values uuid.uuid4() can return
NoId == "<none>"                  \* sessionId missing or null in the request
EmptyId == ""                     \* sessionId sent as the empty string
NoList == << >>                      \* no list object looked up

Whitespace == {" ", "\n", "\t"}
RawMessages == {<< >>, <<" ">>, <<" ", "b", " ">>}
RawCompletions == {<<" ", "y", "\n">>}
GatewayErrors == {<<"quota">>}
DigitChars == <<"0", "1", "2", "3", "4", "5", "6", "7", "8", "9">>

\* a resume text of n characters
ResumeText(n) == [i \in 1..n |-> IF i <= 4000 THEN "r" ELSE "z"]

\* what a client uploads: no file, or a file name and what the file holds
\* (text, or bytes no parser can read)
NoFile == [filename |-> << >>, readable |-> FALSE, text |-> << >>]
Uploads ==
    { NoFile,
      [filename |-> <<"cv", ".", "TXT">>, readable |-> TRUE, text |-> <<"r", "s">>],
      [filename |-> <<"cv", ".", "txt">>, readable |-> TRUE, text |-> ResumeText(4000)],
      [filename |-> <<"cv", ".", "txt">>, readable |-> TRUE, text |-> ResumeText(4001)],
      [filename |-> <<"cv", ".", "pdf">>, readable |-> FALSE, text |-> << >>],
      [filename |-> <<"cv", ".", "exe">>, readable |-> TRUE, text |-> <<"r">>],
      [filename |-> <<".", "pdf">>, readable |-> TRUE, text |-> <<"r">>] }

\* --------------------------------------------------------------- constants
SYSTEM_PROMPT == <<"You are CareerHRBot, ...">>
ALLOWED_EXTENSIONS == {"pdf", "doc", "docx", "txt"}
UPLOAD_FOLDER == "uploads"
ResumeCap == 4000

VARIABLES
    threaded,        \* app.run(threaded=...): requests are served concurrently
    budget,          \* how many requests the clients send that get past the checks
    conversations,   \* session id -> list object           (app.py:37)
    heap,            \* list object -> its messages
    served,          \* requests that went on to the store or the gateway so far
    calls,           \* calls of client.models.generate_content so far
    pc,              \* where each thread is in its handler
    session_id,      \* local of chat / reset / upload_resume
    message,         \* data.get("message", "") of chat, as the client sent it
    user_message,    \* local of chat: the message stripped
    current_time,    \* local of chat
    lst,             \* the list object a thread has looked up
    prompt_text,     \* local of chat
    bot_reply,       \* local of chat
    file,            \* local of upload_resume: the upload (name and what it holds)
    filename,        \* local of upload_resume
    analysis_prompt, \* local of upload_resume
    resp,            \* the response the thread's last request returned
    made,            \* generate_content calls of the thread's request so far
    appended,        \* User messages appended to a history so far
    seeded,          \* the turn found its id missing at line 117
    cut,             \* a turn that found the session in place has appended to
                     \* it since this turn's User message, its reply not yet in
    stale,           \* the id was reset since this turn's User message, its
                     \* reply not yet in
    before,          \* history of session_id when the turn began (<<>>: none)
    quiet,           \* no other chat or reset on session_id stepped since
    dropped,         \* the turn is the first on its id since the id's reset
    removed          \* ids reset successfully and not used by a chat since

vars == <<threaded, budget, conversations, heap, served, calls, pc, session_id,
          message, user_message, current_time, lst, prompt_text, bot_reply, filename,
          analysis_prompt, resp, before, quiet, dropped, removed, file, made,
          appended, seeded, cut, stale>>

config == <<threaded, budget>>
resumeLocals == <<file, filename, analysis_prompt>>
marks == <<seeded, cut, stale>>

\* ------------------------------------------------------------------- text
Msg(role, content) == [role |-> role, content |-> content]

RECURSIVE LStrip(_)
LStrip(s) ==
    IF s # << >> /\ Head(s) \in Whitespace THEN LStrip(Tail(s)) ELSE s

RECURSIVE RStrip(_)
RStrip(s) ==
    IF s # << >> /\ s[Len(s)] \in Whitespace
    THEN RStrip(SubSeq(s, 1, Len(s) - 1))
    ELSE s

\* the message is taken as sent
NoStrip(s) == s

\* str.strip()
Strip(s) == RStrip(LStrip(s))

\* the role is emitted as stored
NoUpper(role) == role

\* str.upper() on the three role names
Upper(role) ==
    CASE role = "system" -> "SYSTEM"
      [] role = "user" -> "USER"
      [] role = "assistant" -> "ASSISTANT"
      [] OTHER -> role

\* strftime("%A, %d %B %Y, %I:%M %p"): the clock at the resolution of a minute
FormatTime(t) == <<DigitChars[(t \div TicksPerMinute) + 1]>>

\* context_info, lines 111-115
ContextInfo(time) ==
    <<"Today's date and time: ">> \o time \o <<". Top companies ... graduates.">>

\* the content of the second seeded message, line 120
ContextContent(time) == <<"Current Context: ">> \o ContextInfo(time)

\* the contextual-facts message is left out
SeededWithoutContext(time) == <<Msg("system", SYSTEM_PROMPT)>>

\* lines 118-121
SeededHistory(time) ==
    <<Msg("system", SYSTEM_PROMPT), Msg("system", ContextContent(time))>>

\* one pass of the loop of lines 126-128
Segment(msg) == <<Upper(msg.role), ": ">> \o msg.content \o <<"\n\n">>

RECURSIVE RenderFrom(_, _, _)
RenderFrom(h, i, acc) ==
    IF i > Len(h) THEN acc ELSE RenderFrom(h, i + 1, acc \o Segment(h[i]))

\* lines 125-129
Render(h) == RenderFrom(h, 1, << >>) \o <<"ASSISTANT:">>

\* ------------------------------------------------------------- the store
Known(sid) == sid \in DOMAIN conversations

History(sid) == heap[conversations[sid]]

Put(convs, sid, o) == [k \in DOMAIN convs \cup {sid} |-> IF k = sid THEN o ELSE convs[k]]

\* dict.clear()
PopAll(convs, sid) == << >>

\* the entry is left in place
NoPop(convs, sid) == convs

\* dict.pop(session_id, None)
Pop(convs, sid) == [k \in DOMAIN convs \ {sid} |-> convs[k]]

\* the list is overwritten with the new message
Append1Replacing(hp, o, msg) == [hp EXCEPT ![o] = <<msg>>]

\* the message goes into every list
Append1ToAll(hp, o, msg) == [x \in DOMAIN hp |-> Append(hp[x], msg)]

\* list.append
Append1(hp, o, msg) == [hp EXCEPT ![o] = Append(@, msg)]

\* list objects no dict entry and no thread refers to are gone
Collect(hp, convs, refs) ==
    LET live == {convs[k] : k \in DOMAIN convs} \cup {refs[w] : w \in Workers}
    IN  [o \in DOMAIN hp \cap live |-> hp[o]]

\* a list object is named by the id it was made for and a serial number
NewList(hp, sid) ==
    <<sid, CHOOSE n \in 1..(Cardinality(DOMAIN hp) + 1) : <<sid, n>> \notin DOMAIN hp>>

\* ids the server holds or is working on
InUse == DOMAIN conversations \cup {session_id[w] : w \in Workers} \cup removed

\* str(uuid.uuid4()): an id nobody holds.  An id the server has forgotten is
\* as good as a new one.
FreshIds == UuidPool \ InUse

\* what a client can send as sessionId: nothing, an id it made up, an id
\* the server gave out
SentIds == {NoId, EmptyId} \cup ProvidedIds \cup UuidPool

\* the sessionId form field of an upload
ResumeIds == {NoId} \cup ProvidedIds

\* ------------------------------------------------------------- responses
Reply(route, code, keys, ok, reply, sid) ==
    [route |-> route, code |-> code, keys |-> keys, ok |-> ok,
     reply |-> reply, sessionId |-> sid]

NoResponse == Reply("", 0, {}, FALSE, << >>, NoId)

\* line 108
CannedReply(sid) ==
    Reply("/chat", 200, {"reply", "sessionId"}, TRUE,
          <<"Please type a message.">>, sid)

\* line 138
ChatReply(text, sid) ==
    Reply("/chat", 200, {"reply", "sessionId"}, TRUE, text, sid)

\* the error reply goes out as a success
ChatErrorAsOk(e, sid) ==
    Reply("/chat", 200, {"reply"}, TRUE, <<"Error in /chat: ">> \o e, NoId)

\* line 141
ChatError(e, sid) ==
    Reply("/chat", 500, {"reply"}, FALSE, <<"Error in /chat: ">> \o e, NoId)

\* str(KeyError(session_id))
KeyErrorText(sid) == <<"'", sid, "'">>

\* line 216
UnknownSession ==
    Reply("/reset", 400, {"ok", "error"}, FALSE, <<"Unknown sessionId">>, NoId)

\* line 218
ResetOk == Reply("/reset", 200, {"ok"}, TRUE, << >>, NoId)

InFlight(w) == pc[w] # "idle"

\* A finished request is seen in the state it ends in; the thread's return
\* touches nothing shared, so it is taken before any other step.
Returning == \E w \in Workers : pc[w] = "done"

\* thread w may take a step: nobody is returning, and a server that is not
\* threaded has no other request in hand
MayRun(w) ==
    /\ ~Returning
    /\ threaded \/ \A u \in Workers \ {w} : pc[u] = "idle"

At(w, here) == pc[w] = here /\ MayRun(w)

\* The threads are interchangeable: a request is taken by the first idle one.
Free(w) == At(w, "idle") /\ \A u \in Workers : u < w => InFlight(u)

\* a step of thread w on session sid: the other threads' requests on sid are
\* no longer undisturbed, and what they began with is forgotten
Disturb(w, sid, begins) ==
    /\ quiet' = [u \in Workers |->
                  IF u = w THEN (IF begins THEN TRUE ELSE quiet[u])
                  ELSE IF InFlight(u) /\ session_id[u] = sid THEN FALSE
                  ELSE quiet[u]]
    /\ before' = [u \in Workers |->
                   IF u = w THEN (IF begins THEN << >> ELSE before[u])
                   ELSE IF InFlight(u) /\ session_id[u] = sid THEN << >>
                   ELSE before[u]]

\* thread u has appended its User message and not yet its Assistant message
Between(u) == pc[u] \in {"get_iter", "render", "call", "get_asst", "append_asst"}

\* thread w appends to the history of its id
Cut(w) ==
    cut' = [u \in Workers |->
              IF /\ u # w /\ Between(u) /\ session_id[u] = session_id[w]
                 /\ ~seeded[w] /\ ~stale[u]
              THEN TRUE ELSE cut[u]]

\* thread w removes its id from the store
Stale(w) ==
    stale' = [u \in Workers |->
                IF u # w /\ Between(u) /\ session_id[u] = session_id[w]
                THEN TRUE ELSE stale[u]]

TypeOK ==
    /\ DOMAIN conversations \subseteq ProvidedIds \cup UuidPool
    /\ \A sid \in DOMAIN conversations : conversations[sid] \in DOMAIN heap
    /\ served \in 0..budget
    /\ calls \in 0..served
    /\ appended \in 0..served
    /\ \A w \in Workers : made[w] \in 0..1 /\ file[w] \in Uploads
    /\ \A w \in Workers : lst[w] = NoList \/ lst[w] \in DOMAIN heap

Start ==
    /\ conversations = << >>
    /\ heap = << >>
    /\ served = 0
    /\ calls = 0
    /\ pc = [w \in Workers |-> "idle"]
    /\ session_id = [w \in Workers |-> NoId]
    /\ message = [w \in Workers |-> << >>]
    /\ user_message = [w \in Workers |-> << >>]
    /\ current_time = [w \in Workers |-> << >>]
    /\ lst = [w \in Workers |-> NoList]
    /\ prompt_text = [w \in Workers |-> << >>]
    /\ bot_reply = [w \in Workers |-> << >>]
    /\ filename = [w \in Workers |-> << >>]
    /\ analysis_prompt = [w \in Workers |-> << >>]
    /\ resp = [w \in Workers |-> NoResponse]
    /\ before = [w \in Workers |-> << >>]
    /\ quiet = [w \in Workers |-> TRUE]
    /\ dropped = [w \in Workers |-> FALSE]
    /\ removed = {}
    /\ file = [w \in Workers |-> NoFile]
    /\ made = [w \in Workers |-> 0]
    /\ appended = 0
    /\ seeded = [w \in Workers |-> FALSE]
    /\ cut = [w \in Workers |-> FALSE]
    /\ stale = [w \in Workers |-> FALSE]

\* ------------------------------------------------------------------ /chat
\* the user's text is stored under the assistant's role
UserEntryAsAssistant(text) == Msg("assistant", text)

UserEntry(text) == Msg("user", text)

AssistantEntry(text) == Msg("assistant", text)

\* the failed step is followed by another gateway call
ChatRetries(w, e) ==
    /\ UNCHANGED resp
    /\ pc' = [pc EXCEPT ![w] = "call"]

\* the except clause of chat, line 140: the thread's locals are dropped
ChatFails(w, e) ==
    /\ resp' = [resp EXCEPT ![w] = ChatError(e, session_id[w])]
    /\ pc' = [pc EXCEPT ![w] = "done"]

\* lines 103-115: the request is read, the clock is read
ChatBegin(w, sent, raw, now) ==
    /\ Free(w)
    /\ served < budget
    /\ now \in 0..MaxClock
    /\ sent \in {NoId, EmptyId} => FreshIds # {}
    /\ LET fresh == sent \in {NoId, EmptyId}
           sid == IF fresh THEN CHOOSE u \in FreshIds : TRUE ELSE sent
           text == Strip(raw)
           goes == text # << >>
       IN  /\ served' = IF goes THEN served + 1 ELSE served
           /\ session_id' = [session_id EXCEPT ![w] = sid]
           /\ message' = [message EXCEPT ![w] = raw]
           /\ user_message' = [user_message EXCEPT ![w] = text]
           /\ current_time' =
                 [current_time EXCEPT ![w] = IF goes THEN FormatTime(now) ELSE << >>]
           /\ resp' = [resp EXCEPT ![w] =
                 IF goes THEN NoResponse ELSE CannedReply(sid)]
           /\ pc' = [pc EXCEPT ![w] = IF goes THEN "check" ELSE "done"]
           /\ before' = [before EXCEPT ![w] =
                 IF goes /\ Known(sid) THEN History(sid) ELSE << >>]
           /\ dropped' = [dropped EXCEPT ![w] = goes /\ sid \in removed]
           /\ removed' = IF goes THEN removed \ {sid} ELSE removed
           /\ quiet' = [quiet EXCEPT ![w] = TRUE]
    /\ prompt_text' = [prompt_text EXCEPT ![w] = << >>]
    /\ bot_reply' = [bot_reply EXCEPT ![w] = << >>]
    /\ UNCHANGED <<config, marks, made, appended, resumeLocals, conversations, heap, calls, lst>>

\* the membership test is missing: every turn seeds
ChatCheckAlwaysSeeds(w) ==
    /\ At(w, "check")
    /\ pc' = [pc EXCEPT ![w] = "seed"]
    /\ seeded' = [seeded EXCEPT ![w] = TRUE]
    /\ Disturb(w, session_id[w], FALSE)
    /\ UNCHANGED <<config, cut, stale, made, appended, message, resumeLocals, conversations, heap, served, calls,
                   session_id, user_message, current_time, lst, prompt_text,
                   bot_reply, resp, dropped, removed>>

\* line 117
ChatCheck(w) ==
    /\ At(w, "check")
    /\ pc' = [pc EXCEPT ![w] = IF Known(session_id[w]) THEN "get_user" ELSE "seed"]
    /\ seeded' = [seeded EXCEPT ![w] = ~Known(session_id[w])]
    /\ Disturb(w, session_id[w], FALSE)
    /\ UNCHANGED <<config, cut, stale, made, appended, message, resumeLocals, conversations, heap, served, calls, session_id,
                   user_message, current_time, lst, prompt_text, bot_reply, resp,
                   dropped, removed>>

\* lines 118-121: a new list is stored under the id
ChatSeed(w) ==
    /\ At(w, "seed")
    /\ LET o == NewList(heap, session_id[w])
           convs == Put(conversations, session_id[w], o)
       IN  /\ conversations' = convs
           /\ heap' = Collect(Put(heap, o, SeededHistory(current_time[w])), convs, lst)
    /\ pc' = [pc EXCEPT ![w] = "get_user"]
    /\ Disturb(w, session_id[w], FALSE)
    /\ UNCHANGED <<config, marks, made, appended, message, resumeLocals, served, calls, session_id, user_message,
                   current_time, lst, prompt_text, bot_reply, resp, dropped,
                   removed>>

\* conversations[session_id] of lines 123, 126 and 136: the list, or KeyError
Lookup(w, here, next) ==
    /\ At(w, here)
    /\ IF Known(session_id[w])
       THEN /\ lst' = [lst EXCEPT ![w] = conversations[session_id[w]]]
            /\ pc' = [pc EXCEPT ![w] = next]
            /\ UNCHANGED resp
       ELSE /\ ChatFails(w, KeyErrorText(session_id[w]))
            /\ UNCHANGED lst
    /\ Disturb(w, session_id[w], FALSE)
    /\ UNCHANGED <<config, marks, made, appended, message, resumeLocals, conversations, heap, served, calls, session_id,
                   user_message, current_time, prompt_text, bot_reply, 
                   dropped, removed>>

\* line 123, the subscript
ChatGetUser(w) == Lookup(w, "get_user", "append_user")

\* line 123, the append
ChatAppendUser(w) ==
    /\ At(w, "append_user")
    /\ LET refs == [lst EXCEPT ![w] = NoList]
       IN  /\ heap' = Collect(Append1(heap, lst[w], UserEntry(user_message[w])),
                              conversations, refs)
           /\ lst' = refs
    /\ appended' = appended + 1
    /\ pc' = [pc EXCEPT ![w] = "get_iter"]
    /\ Cut(w)
    /\ Disturb(w, session_id[w], FALSE)
    /\ UNCHANGED <<config, seeded, stale, made, message, resumeLocals, conversations, served, calls, session_id,
                   user_message, current_time, prompt_text, bot_reply, resp, 
                   dropped, removed>>

\* line 126, the subscript
ChatGetIter(w) == Lookup(w, "get_iter", "render")

\* lines 125-129.  The list iterator reads by index and lists only grow, so
\* the loop yields the list as it is when the iterator runs off its end.
ChatRender(w) ==
    /\ At(w, "render")
    /\ prompt_text' = [prompt_text EXCEPT ![w] = Render(heap[lst[w]])]
    /\ LET refs == [lst EXCEPT ![w] = NoList]
       IN  /\ heap' = Collect(heap, conversations, refs)
           /\ lst' = refs
    /\ pc' = [pc EXCEPT ![w] = "call"]
    /\ Disturb(w, session_id[w], FALSE)
    /\ UNCHANGED <<config, marks, made, appended, message, resumeLocals, conversations, served, calls, session_id,
                   user_message, current_time, bot_reply, resp, dropped,
                   removed>>

\* lines 131-135: the completion, stripped, or the gateway's exception
ChatGateway(w, ok, text) ==
    /\ At(w, "call")
    /\ calls' = calls + 1
    /\ made' = [made EXCEPT ![w] = @ + 1]
    /\ prompt_text' = [prompt_text EXCEPT ![w] = << >>]
    /\ IF ok
       THEN /\ bot_reply' = [bot_reply EXCEPT ![w] = Strip(text)]
            /\ pc' = [pc EXCEPT ![w] = "get_asst"]
            /\ UNCHANGED resp
       ELSE /\ ChatFails(w, text)
            /\ UNCHANGED bot_reply
    /\ Disturb(w, session_id[w], FALSE)
    /\ UNCHANGED <<config, marks, appended, message, resumeLocals, conversations, heap, served, session_id,
                   user_message, current_time, lst, dropped, removed>>

\* line 136, the subscript
ChatGetAsst(w) == Lookup(w, "get_asst", "append_asst")

\* line 136, the append, and line 138
ChatAppendAsst(w) ==
    /\ At(w, "append_asst")
    /\ LET refs == [lst EXCEPT ![w] = NoList]
       IN  /\ heap' = Collect(Append1(heap, lst[w], AssistantEntry(bot_reply[w])),
                              conversations, refs)
           /\ lst' = refs
    /\ resp' = [resp EXCEPT ![w] = ChatReply(bot_reply[w], session_id[w])]
    /\ pc' = [pc EXCEPT ![w] = "done"]
    /\ Cut(w)
    /\ Disturb(w, session_id[w], FALSE)
    /\ UNCHANGED <<config, seeded, stale, made, appended, message, resumeLocals, conversations, served, calls, session_id,
                   user_message, current_time, prompt_text, bot_reply, 
                   dropped, removed>>

\* ----------------------------------------------------------------- /reset
\* lines 213-216
ResetBegin(w, sent) ==
    /\ Free(w)
    /\ served < budget
    /\ session_id' = [session_id EXCEPT ![w] = sent]
    /\ IF sent \in {NoId, EmptyId} \/ ~Known(sent)
       THEN /\ resp' = [resp EXCEPT ![w] = UnknownSession]
            /\ pc' = [pc EXCEPT ![w] = "done"]
            /\ UNCHANGED served
       ELSE /\ resp' = [resp EXCEPT ![w] = NoResponse]
            /\ pc' = [pc EXCEPT ![w] = "pop"]
            /\ served' = served + 1
    /\ user_message' = [user_message EXCEPT ![w] = << >>]
    /\ current_time' = [current_time EXCEPT ![w] = << >>]
    /\ prompt_text' = [prompt_text EXCEPT ![w] = << >>]
    /\ bot_reply' = [bot_reply EXCEPT ![w] = << >>]
    /\ dropped' = [dropped EXCEPT ![w] = FALSE]
    /\ Disturb(w, sent, TRUE)
    /\ UNCHANGED <<config, marks, made, appended, message, resumeLocals, conversations, heap, calls, lst, removed>>

\* lines 217-218
ResetPop(w) ==
    /\ At(w, "pop")
    /\ LET convs == Pop(conversations, session_id[w])
       IN  /\ conversations' = convs
           /\ heap' = Collect(heap, convs, lst)
    /\ removed' = removed \cup {session_id[w]}
    /\ resp' = [resp EXCEPT ![w] = ResetOk]
    /\ pc' = [pc EXCEPT ![w] = "done"]
    /\ Stale(w)
    /\ Disturb(w, session_id[w], FALSE)
    /\ UNCHANGED <<config, seeded, cut, made, appended, message, resumeLocals, served, calls, session_id, user_message,
                   current_time, lst, prompt_text, bot_reply, dropped>>

\* --------------------------------------------------------- /upload_resume
\* str.lower() on the extensions that occur
Lower(tok) ==
    CASE tok = "TXT" -> "txt"
      [] tok = "PDF" -> "pdf"
      [] OTHER -> tok

HasDot(name) == \E i \in 1..Len(name) : name[i] = "."

LastDot(name) == CHOOSE i \in 1..Len(name) : name[i] = "." /\ \A j \in (i + 1)..Len(name) : name[j] # "."

\* name.rsplit(".", 1)[1]: what follows the last dot, as one token
AfterLastDot(name) ==
    IF LastDot(name) = Len(name) THEN "" ELSE name[Len(name)]

\* lines 31-32
allowed_file(name) ==
    HasDot(name) /\ Lower(AfterLastDot(name)) \in ALLOWED_EXTENSIONS

RECURSIVE StripDots(_)
StripDots(name) ==
    IF name # << >> /\ Head(name) \in {".", "_"} THEN StripDots(Tail(name))
    ELSE IF name # << >> /\ name[Len(name)] \in {".", "_"}
         THEN StripDots(SubSeq(name, 1, Len(name) - 1))
         ELSE name

\* werkzeug's secure_filename on these names: leading and trailing dots and
\* underscores go
secure_filename(name) == StripDots(name)

\* line 156
SavePath(name) == <<UPLOAD_FOLDER, "/">> \o name

\* line 185 raises IndexError when the path holds no dot
CanDispatch(path) == HasDot(path)

\* lines 184-205, for a path that holds a dot
extract_text(path, f) ==
    LET ext == Lower(AfterLastDot(path))
    IN  IF ext = "txt" THEN f.text
        ELSE IF ext \in {"pdf", "doc", "docx"}
             THEN (IF f.readable THEN f.text ELSE << >>)
             ELSE << >>

\* the whole text is embedded
NoTruncate(text) == text

\* text_content[:4000]
Truncate(text) ==
    IF Len(text) <= ResumeCap THEN text ELSE SubSeq(text, 1, ResumeCap)

\* lines 163-167
AnalysisPrompt(text) ==
    <<"You are a professional HR assistant. ... Resume Content:\n">> \o Truncate(text)

\* line 153
InvalidFile ==
    Reply("/upload_resume", 400, {"reply"}, FALSE,
          <<"Please upload a valid resume file (.pdf, .doc, .docx, .txt).">>, NoId)

\* the advisory goes out as a server error
UnreadableAsError ==
    Reply("/upload_resume", 500, {"reply"}, FALSE,
          <<"Couldn't read your resume. Try a text-based file.">>, NoId)

\* line 161
Unreadable ==
    Reply("/upload_resume", 200, {"reply"}, TRUE,
          <<"Couldn't read your resume. Try a text-based file.">>, NoId)

\* line 179
ResumeError(e) ==
    Reply("/upload_resume", 500, {"reply"}, FALSE,
          <<"Error in /upload_resume: ">> \o e, NoId)

\* lines 174-176
ResumeReply(name, feedback, sid) ==
    Reply("/upload_resume", 200, {"reply", "sessionId"}, TRUE,
          <<"Your resume '">> \o name \o <<"' was uploaded successfully. ...">>
              \o feedback, sid)

\* lines 149-167
ResumeBegin(w, sent, f) ==
    /\ Free(w)
    /\ served < budget
    /\ sent = NoId => FreshIds # {}
    /\ LET sid == IF sent = NoId THEN CHOOSE u \in FreshIds : TRUE ELSE sent
           name == secure_filename(f.filename)
           path == SavePath(name)
           valid == f # NoFile /\ allowed_file(f.filename)
           text == IF valid /\ CanDispatch(path) THEN extract_text(path, f) ELSE << >>
           goes == valid /\ CanDispatch(path) /\ text # << >>
       IN  /\ served' = IF goes THEN served + 1 ELSE served
           /\ session_id' = [session_id EXCEPT ![w] = sid]
           /\ file' = [file EXCEPT ![w] = f]
           /\ filename' = [filename EXCEPT ![w] = IF goes THEN name ELSE << >>]
           /\ analysis_prompt' =
                 [analysis_prompt EXCEPT ![w] = IF goes THEN AnalysisPrompt(text) ELSE << >>]
           /\ resp' = [resp EXCEPT ![w] =
                 IF ~valid THEN InvalidFile
                 ELSE IF ~CanDispatch(path)
                      THEN ResumeError(<<"list index out of range">>)
                      ELSE IF text = << >> THEN Unreadable ELSE NoResponse]
           /\ pc' = [pc EXCEPT ![w] = IF goes THEN "analyse" ELSE "done"]
    /\ UNCHANGED <<config, marks, made, appended, message, conversations, heap, calls, user_message, current_time,
                   lst, prompt_text, bot_reply, before, quiet, dropped, removed>>

\* lines 169-179
ResumeGateway(w, ok, text) ==
    /\ At(w, "analyse")
    /\ made' = [made EXCEPT ![w] = @ + 1]
    /\ resp' = [resp EXCEPT ![w] =
          IF ok THEN ResumeReply(filename[w], Strip(text), session_id[w])
          ELSE ResumeError(text)]
    /\ pc' = [pc EXCEPT ![w] = "done"]
    /\ UNCHANGED <<config, marks, appended, message, conversations, heap, served, calls, session_id, user_message,
                   current_time, lst, prompt_text, bot_reply, file, filename,
                   analysis_prompt, before, quiet, dropped, removed>>

\* the response has gone out: the thread is free again, its locals are gone
Return(w) ==
    /\ pc[w] = "done"
    /\ pc' = [pc EXCEPT ![w] = "idle"]
    /\ session_id' = [session_id EXCEPT ![w] = NoId]
    /\ message' = [message EXCEPT ![w] = << >>]
    /\ user_message' = [user_message EXCEPT ![w] = << >>]
    /\ current_time' = [current_time EXCEPT ![w] = << >>]
    /\ bot_reply' = [bot_reply EXCEPT ![w] = << >>]
    /\ resp' = [resp EXCEPT ![w] = NoResponse]
    /\ before' = [before EXCEPT ![w] = << >>]
    /\ dropped' = [dropped EXCEPT ![w] = FALSE]
    /\ quiet' = [quiet EXCEPT ![w] = TRUE]
    /\ file' = [file EXCEPT ![w] = NoFile]
    /\ made' = [made EXCEPT ![w] = 0]
    /\ seeded' = [seeded EXCEPT ![w] = FALSE]
    /\ cut' = [cut EXCEPT ![w] = FALSE]
    /\ stale' = [stale EXCEPT ![w] = FALSE]
    /\ filename' = [filename EXCEPT ![w] = << >>]
    /\ analysis_prompt' = [analysis_prompt EXCEPT ![w] = << >>]
    /\ UNCHANGED <<config,  appended, conversations, heap, served, calls, lst,
                   prompt_text, removed>>

Next ==
    \E w \in Workers :
        \/ Return(w)
        \/ \E sent \in SentIds, raw \in RawMessages, now \in 0..MaxClock :
              ChatBegin(w, sent, raw, now)
        \/ ChatCheck(w)
        \/ ChatSeed(w)
        \/ ChatGetUser(w)
        \/ ChatAppendUser(w)
        \/ ChatGetIter(w)
        \/ ChatRender(w)
        \/ \E text \in RawCompletions : ChatGateway(w, TRUE, text)
        \/ \E e \in GatewayErrors : ChatGateway(w, FALSE, e)
        \/ ChatGetAsst(w)
        \/ ChatAppendAsst(w)
        \/ \E sent \in SentIds : ResetBegin(w, sent)
        \/ ResetPop(w)
        \/ \E sent \in ResumeIds, f \in Uploads : ResumeBegin(w, sent, f)
        \/ \E text \in RawCompletions : ResumeGateway(w, TRUE, text)
        \/ \E e \in GatewayErrors : ResumeGateway(w, FALSE, e)

\* the threaded server (Flask's default)
Init == Start /\ threaded = TRUE /\ budget = MaxRequests

Spec == Init /\ [][Next]_vars

\* the same handlers when the server takes one request at a time
SeqInit == Start /\ threaded = FALSE /\ budget = MaxRequests + SeqExtra

SeqSpec == SeqInit /\ [][Next]_vars

\* the threaded server when the clients send one request more
BurstInit == Start /\ threaded = TRUE /\ budget = MaxRequests + 1

BurstSpec == BurstInit /\ [][Next]_vars

\* ================================================================= claims
\* thread w is in a chat turn whose message is not empty
ChatTurn(w) == InFlight(w) /\ user_message[w] # << >>

\* the history the turn of thread w started from: what the id held, or the
\* two seeded messages when the id was unknown
Base(w) ==
    IF before[w] = << >> THEN SeededHistory(current_time[w]) ELSE before[w]

IsBlank(text) == \A i \in 1..Len(text) : text[i] \in Whitespace

IsTrimmed(text) ==
    text # << >> => text[1] \notin Whitespace /\ text[Len(text)] \notin Whitespace

Succeeded(w) == pc[w] = "done" /\ resp[w].route = "/chat" /\ resp[w].code = 200

Failed(w) == pc[w] = "done" /\ resp[w].route = "/chat" /\ resp[w].code = 500

\* C1: a chat turn with a non-empty message that no other chat or reset on
\* the same id interleaves with leaves, at the gateway call, the history it
\* started from (the two seeded messages for an unknown id) followed by one
\* User message with the trimmed text, and after success that followed by one
\* Assistant message with the trimmed completion; after a failure the User
\* message is the last entry.
C1_TurnAppendsUserThenAssistant ==
    \A w \in Workers :
        ChatTurn(w) /\ quiet[w] =>
            LET user == [role |-> "user", content |-> user_message[w]]
                asst == [role |-> "assistant", content |-> bot_reply[w]]
                sid == session_id[w]
            IN  /\ IsTrimmed(user_message[w]) /\ IsTrimmed(bot_reply[w])
                /\ pc[w] = "call" =>
                      Known(sid) /\ History(sid) = Base(w) \o <<user>>
                /\ Succeeded(w) =>
                      /\ Known(sid) /\ History(sid) = Base(w) \o <<user, asst>>
                      /\ resp[w].reply = bot_reply[w]
                /\ Failed(w) =>
                      Known(sid) /\ History(sid) = Base(w) \o <<user>>

\* a second turn on a session has succeeded undisturbed: the history holds
\* the four entries of the first turn and the two of this one
C1_Witness ==
    \E w \in Workers :
        /\ ChatTurn(w) /\ quiet[w] /\ Succeeded(w)
        /\ Len(before[w]) = 4
        /\ Len(History(session_id[w])) = 6

\* C2: a chat turn whose message is empty or only whitespace ends at once
\* with the canned reply carrying the session id, changes nothing in the
\* session store (no session appears, also under a generated id) and calls
\* the gateway not at all.
C2_BlankMessageTouchesNothing ==
    [][\A w \in Workers :
          ( /\ pc[w] = "idle"
            /\ pc'[w] = "check" \/ (pc'[w] = "done" /\ resp'[w].route = "/chat")
            /\ IsBlank(message'[w]) )
          => /\ pc'[w] = "done"
             /\ resp'[w].code = 200
             /\ resp'[w].keys = {"reply", "sessionId"}
             /\ resp'[w].reply = <<"Please type a message.">>
             /\ resp'[w].sessionId = session_id'[w]
             /\ conversations' = conversations
             /\ heap' = heap
             /\ calls' = calls]_vars

\* a whitespace-only message sent without an id has been answered: the
\* generated id is in the reply and names no session
C2_Witness ==
    \E w \in Workers :
        /\ pc[w] = "done" /\ resp[w].route = "/chat"
        /\ message[w] = <<" ">>
        /\ resp[w].reply = <<"Please type a message.">>
        /\ session_id[w] \in UuidPool
        /\ ~Known(session_id[w])

\* C3: the step in which the gateway call of a chat turn fails ends the turn
\* with the error reply (status 500, "Error in /chat: ..."), appends nothing
\* and changes nothing in the session store; when no other chat or reset on
\* the id has interleaved, the User message of the turn is the last entry of
\* the session's history.
C3_GatewayFailureKeepsUserTurn ==
    [][\A w \in Workers :
          (pc[w] = "call" /\ pc'[w] # "get_asst" /\ pc'[w] # "call")
          => /\ pc'[w] = "done"
             /\ resp'[w].route = "/chat"
             /\ resp'[w].code = 500
             /\ resp'[w].reply[1] = "Error in /chat: "
             /\ conversations' = conversations
             /\ heap' = heap
             /\ quiet[w] =>
                   LET h == History(session_id[w])
                   IN  /\ Known(session_id[w])
                       /\ h[Len(h)] = [role |-> "user", content |-> user_message[w]]]_vars

\* a gateway call has failed on a session that already held a full turn
C3_Witness ==
    \E w \in Workers :
        /\ ChatTurn(w) /\ quiet[w] /\ Failed(w)
        /\ Known(session_id[w])
        /\ LET h == History(session_id[w])
           IN  /\ Len(h) = 5
               /\ h[4].role = "assistant"
               /\ h[5] = [role |-> "user", content |-> user_message[w]]

ContextMessages ==
    {[role |-> "system", content |-> ContextContent(FormatTime(t))] : t \in 0..MaxClock}

\* C4: in every reachable state of the threaded server, every history in
\* the session store has at least two entries, the first the fixed system
\* instruction, the second a system contextual-facts message, and every
\* later entry a User or Assistant message.
C4_HistoryStartsWithSystemBlock ==
    \A sid \in DOMAIN conversations :
        LET h == History(sid)
        IN  /\ Len(h) >= 2
            /\ h[1] = [role |-> "system", content |-> SYSTEM_PROMPT]
            /\ h[2] \in ContextMessages
            /\ \A i \in 3..Len(h) : h[i].role \in {"user", "assistant"}

\* two chat turns that overlapped on one id have both appended to it
C4_Witness ==
    \E sid \in DOMAIN conversations :
        LET h == History(sid)
        IN  /\ Len(h) = 6
            /\ h[3].role = "user" /\ h[4].role = "user"

\* C5 as stated: after the two system messages the roles are User,
\* Assistant, User, Assistant, ... with no two equal roles adjacent.
C5_StrictAlternation ==
    \A sid \in DOMAIN conversations :
        LET h == History(sid)
        IN  \A i \in 3..Len(h) :
                h[i].role = IF (i - 3) % 2 = 0 THEN "user" ELSE "assistant"

\* C5, amended: when requests are served one at a time, the part of a
\* history after the two system messages starts with a User message and every
\* Assistant message directly follows a User message, so that no two
\* Assistant messages are adjacent; two User messages are adjacent where the
\* earlier turn's gateway call failed.
C5_AssistantFollowsUser ==
    \A sid \in DOMAIN conversations :
        LET h == History(sid)
        IN  /\ Len(h) >= 3 => h[3].role = "user"
            /\ \A i \in 4..Len(h) :
                  /\ h[i].role \in {"user", "assistant"}
                  /\ h[i].role = "assistant" => h[i - 1].role = "user"

\* a failed turn, then a turn that succeeded: User, User, Assistant
C5_Witness ==
    \E sid \in DOMAIN conversations :
        LET h == History(sid)
        IN  /\ Len(h) = 5
            /\ h[3].role = "user" /\ h[4].role = "user" /\ h[5].role = "assistant"

\* C6: the first step of a reset changes nothing in the session store and
\* goes on exactly when the id is in it, ending otherwise (id absent, missing
\* or empty) with the 400 reply "Unknown sessionId"; the second step removes
\* that id's entry, leaves every other id with the history it had, and
\* reports success.
C6_ResetRemovesExactlyThatId ==
    [][\A w \in Workers :
          /\ ( /\ pc[w] = "idle"
               /\ pc'[w] = "pop" \/ (pc'[w] = "done" /\ resp'[w].route = "/reset") )
             => /\ conversations' = conversations
                /\ heap' = heap
                /\ IF session_id'[w] \in DOMAIN conversations
                   THEN pc'[w] = "pop"
                   ELSE /\ pc'[w] = "done"
                        /\ resp'[w].code = 400
                        /\ resp'[w].ok = FALSE
                        /\ resp'[w].reply = <<"Unknown sessionId">>
          /\ (pc[w] = "pop" /\ pc'[w] # "pop")
             => /\ pc'[w] = "done"
                /\ resp'[w].route = "/reset"
                /\ resp'[w].code = 200
                /\ resp'[w].ok = TRUE
                /\ DOMAIN conversations' = DOMAIN conversations \ {session_id[w]}
                /\ \A k \in DOMAIN conversations' :
                      heap'[conversations'[k]] = heap[conversations[k]]]_vars

\* a reset has succeeded on one of two sessions: its id is gone, the other
\* session still holds its turn
C6_Witness ==
    \E w \in Workers :
        /\ pc[w] = "done" /\ resp[w].route = "/reset" /\ resp[w].ok
        /\ ~Known(session_id[w])
        /\ \E k \in DOMAIN conversations : Len(History(k)) = 4

\* C7: in the first chat turn on an id since its successful reset, the
\* history at the gateway call is the system instruction, the contextual
\* facts built from the clock reading of this turn, and the User message of
\* this turn, and nothing from before the reset: what a turn on an id never
\* seen gives.
C7_ChatAfterResetStartsAfresh ==
    \A w \in Workers :
        ChatTurn(w) /\ dropped[w] /\ pc[w] = "call" =>
            /\ Known(session_id[w])
            /\ History(session_id[w]) =
                  << [role |-> "system", content |-> SYSTEM_PROMPT],
                     [role |-> "system", content |-> ContextContent(current_time[w])],
                     [role |-> "user", content |-> user_message[w]] >>

\* a turn on a reset id is at its gateway call, with a later clock reading
C7_Witness ==
    \E w \in Workers :
        /\ ChatTurn(w) /\ dropped[w] /\ pc[w] = "call"
        /\ current_time[w] = FormatTime(MaxClock)
        /\ Len(History(session_id[w])) = 3

\* C8: when requests are served one at a time, no step changes the first two
\* entries of the history of an id that is in the session store before and
\* after the step: a turn on a known id does not seed it again, whatever the
\* clock reads by then.
C8_SeedingHappensOnce ==
    [][\A sid \in DOMAIN conversations :
          sid \in DOMAIN conversations' =>
              /\ heap'[conversations'[sid]][1] = History(sid)[1]
              /\ heap'[conversations'[sid]][2] = History(sid)[2]]_vars

\* a second turn has succeeded on a session whose contextual facts carry an
\* earlier clock reading than the turn's own
C8_Witness ==
    \E w \in Workers :
        /\ ChatTurn(w) /\ Succeeded(w)
        /\ Len(before[w]) = 4
        /\ Len(History(session_id[w])) = 6
        /\ History(session_id[w])[2] = before[w][2]
        /\ History(session_id[w])[2].content # ContextContent(current_time[w])

Labels == [system |-> "SYSTEM", user |-> "USER", assistant |-> "ASSISTANT"]

\* where the segment of message i starts in the prompt of history h
RECURSIVE Offset(_, _)
Offset(h, i) ==
    IF i = 1 THEN 1 ELSE Offset(h, i - 1) + Len(h[i - 1].content) + 3

\* C9: at the gateway call of a chat turn that no other chat or reset on the
\* id has interleaved with, the prompt holds, for each message of the
\* session's history in order, the role in upper case, ": ", the content and
\* a blank line, then the cue "ASSISTANT:" and nothing more; the last
\* message is the turn's own User message.
C9_PromptRendersWholeHistory ==
    \A w \in Workers :
        pc[w] = "call" /\ quiet[w] =>
            /\ Known(session_id[w])
            /\ LET h == History(session_id[w])
                   p == prompt_text[w]
               IN  /\ h[Len(h)] = [role |-> "user", content |-> user_message[w]]
                   /\ Len(p) = Offset(h, Len(h) + 1)
                   /\ p[Len(p)] = "ASSISTANT:"
                   /\ \A i \in 1..Len(h) :
                         LET o == Offset(h, i)
                             c == h[i].content
                         IN  /\ p[o] = Labels[h[i].role]
                             /\ p[o + 1] = ": "
                             /\ SubSeq(p, o + 2, o + 1 + Len(c)) = c
                             /\ p[o + 2 + Len(c)] = "\n\n"

\* the prompt of a second turn: five messages, the Assistant's among them
C9_Witness ==
    \E w \in Workers :
        /\ pc[w] = "call" /\ quiet[w]
        /\ Len(History(session_id[w])) = 5
        /\ History(session_id[w])[4].role = "assistant"

\* C10: every reply of a chat request carries the session id the request
\* worked under.
C10_EveryChatReplyCarriesSessionId ==
    \A w \in Workers :
        pc[w] = "done" /\ resp[w].route = "/chat" =>
            /\ "sessionId" \in resp[w].keys
            /\ resp[w].sessionId = session_id[w]

\* thread w takes a step of a resume turn: the one that reads the upload
\* (from idle) or the one that calls the gateway (from "analyse")
ResumeReads(w) ==
    /\ pc[w] = "idle"
    /\ pc'[w] = "analyse" \/ (pc'[w] = "done" /\ resp'[w].route = "/upload_resume")

ResumeCalls(w) == pc[w] = "analyse" /\ pc'[w] # "analyse"

\* C11: no step of a resume turn changes the session store or any history,
\* whatever session id the turn was given and however it ends; and a turn
\* whose file passes the allow-list and yields an empty text ends in its first
\* step with the advisory reply "Couldn't read your resume ..." and without a
\* gateway call.
C11_ResumeLeavesStoreAlone ==
    [][\A w \in Workers :
          /\ (ResumeReads(w) \/ ResumeCalls(w))
             => /\ conversations' = conversations
                /\ heap' = heap
                /\ appended' = appended
          /\ ( /\ ResumeReads(w)
               /\ file'[w] # NoFile
               /\ allowed_file(file'[w].filename)
               /\ CanDispatch(SavePath(secure_filename(file'[w].filename)))
               /\ extract_text(SavePath(secure_filename(file'[w].filename)), file'[w]) = << >> )
             => /\ pc'[w] = "done"
                /\ resp'[w].code = 200
                /\ resp'[w].reply = <<"Couldn't read your resume. Try a text-based file.">>
                /\ made'[w] = 0
                /\ calls' = calls]_vars

\* a resume turn given the id of a session that holds a full chat turn has
\* ended with the advisory reply, the session as it was
C11_Witness ==
    \E w \in Workers :
        /\ pc[w] = "done" /\ resp[w].route = "/upload_resume"
        /\ resp[w].reply = <<"Couldn't read your resume. Try a text-based file.">>
        /\ file[w].filename = <<"cv", ".", "pdf">>
        /\ made[w] = 0
        /\ Known(session_id[w])
        /\ Len(History(session_id[w])) = 4

\* C12: every resume turn whose file passes the allow-list and whose text
\* cannot be extracted (unreadable content, or a stored path the extractor
\* cannot dispatch on) ends with the advisory reply, status 200, and never
\* with a server error.
C12_ExtractionFailsSoft ==
    \A w \in Workers :
        ( /\ pc[w] = "done" /\ resp[w].route = "/upload_resume"
          /\ file[w] # NoFile
          /\ allowed_file(file[w].filename)
          /\ \/ ~file[w].readable
             \/ ~CanDispatch(SavePath(secure_filename(file[w].filename))) )
        => /\ resp[w].code = 200
           /\ resp[w].reply = <<"Couldn't read your resume. Try a text-based file.">>

\* C13: a chat turn that found its session in place and succeeded has its
\* Assistant message directly after its User message: no other turn that
\* found the session in place appended to the history in between.
C13_TurnsDoNotInterleave ==
    \A w \in Workers :
        Succeeded(w) /\ ~seeded[w] /\ ~stale[w] => ~cut[w]

UserCount(h) == Cardinality({i \in 1..Len(h) : h[i].role = "user"})

\* C15: when two chat turns on one id have both appended their User
\* message and neither has its reply in, with no reset of the id since, the
\* history under the id holds both User messages: no turn has replaced, by
\* seeding, the history the other appended to.
C15_BothUserMessagesKept ==
    \A w \in Workers : \A u \in Workers \ {w} :
        ( /\ Between(w) /\ Between(u)
          /\ session_id[w] = session_id[u]
          /\ ~stale[w] /\ ~stale[u] )
        => /\ Known(session_id[w])
           /\ UserCount(History(session_id[w])) >= 2

\* C16: a chat turn whose id was reset after the turn appended its User
\* message never appends its Assistant message to the history held under
\* the id now; and when such a turn finds the id absent at line 136 it ends
\* with the error reply and the id stays absent.
C16_StaleTurnStaysOutOfNewSession ==
    [][\A w \in Workers :
          /\ (pc[w] = "append_asst" /\ pc'[w] = "done" /\ stale[w])
             => ~(Known(session_id[w]) /\ conversations[session_id[w]] = lst[w])
          /\ (pc[w] = "get_asst" /\ pc'[w] # "get_asst" /\ ~Known(session_id[w]))
             => /\ pc'[w] = "done"
                /\ resp'[w].code = 500
                /\ conversations' = conversations]_vars

\* C17: in every step that is not the removal of id sid by a successful
\* reset, sid stays in the session store and the history it held before the
\* step is a prefix of the history it holds after: entries are only added at
\* the end, none is changed, removed or reordered.
C17_HistoryIsAppendOnly ==
    [][\A sid \in DOMAIN conversations :
          ~(\E w \in Workers :
                pc[w] = "pop" /\ pc'[w] = "done" /\ session_id[w] = sid)
          => /\ sid \in DOMAIN conversations'
             /\ LET h == History(sid)
                    g == heap'[conversations'[sid]]
                IN  Len(h) <= Len(g) /\ SubSeq(g, 1, Len(h)) = h]_vars

\* the id the request of thread w works on in this step
ActingId(w) == IF pc[w] = "idle" THEN session_id'[w] ELSE session_id[w]

\* C18: a step of a chat, reset or resume request on id A leaves every
\* other id B of the session store in it, with the history it had; and an id
\* leaves the store only in the step of a successful reset of that id.
C18_SessionsAreIsolated ==
    [][\A w \in Workers :
          pc'[w] # pc[w] =>
              \A B \in DOMAIN conversations :
                  /\ B # ActingId(w) =>
                        /\ B \in DOMAIN conversations'
                        /\ heap'[conversations'[B]] = History(B)
                  /\ B \notin DOMAIN conversations' =>
                        /\ pc[w] = "pop" /\ session_id[w] = B
                        /\ resp'[w].route = "/reset" /\ resp'[w].ok]_vars

\* a turn on one id has succeeded while another id holds a full turn
C18_Witness ==
    \E w \in Workers :
        /\ Succeeded(w)
        /\ Known(session_id[w])
        /\ Len(History(session_id[w])) = 4
        /\ \E B \in DOMAIN conversations \ {session_id[w]} : Len(History(B)) = 4

\* C19: when a resume turn is at its gateway call, its instruction is the
\* fixed heading followed by the first min(length, 4000) characters of the
\* extracted text and nothing more; the turn has made no gateway call before
\* this one and ends after it, with one call made.
C19_PromptEmbedsFirst4000 ==
    \A w \in Workers :
        /\ pc[w] = "analyse" =>
              LET t == file[w].text
                  n == IF Len(t) <= 4000 THEN Len(t) ELSE 4000
                  p == analysis_prompt[w]
              IN  /\ t # << >>
                  /\ made[w] = 0
                  /\ Len(p) = 1 + n
                  /\ p[1] = "You are a professional HR assistant. ... Resume Content:\n"
                  /\ SubSeq(p, 2, n + 1) = SubSeq(t, 1, n)
        /\ (pc[w] = "done" /\ resp[w].route = "/upload_resume") =>
              /\ made[w] <= 1
              /\ "sessionId" \in resp[w].keys => made[w] = 1

\* a resume of 4001 characters is at the gateway call: the instruction holds
\* 4000 of them
C19_Witness ==
    \E w \in Workers :
        /\ pc[w] = "analyse"
        /\ Len(file[w].text) = 4001
        /\ Len(analysis_prompt[w]) = 4001
        /\ analysis_prompt[w][4001] = "r"

====
